---------------------------- MODULE Spec2Model ----------------------------
(***************************************************************************)
(* A model of rtutils/image_helper.py: the geometry resolver and the two   *)
(* affine transforms, the pin-hole line carving, the mask -> contours      *)
(* conversion (get_contours_coords) and the contours -> mask conversion    *)
(* (create_series_mask_from_contour_sequence).                             *)
(*                                                                         *)
(* Numbers.  The program computes in floating point.  The model computes   *)
(* with exact rationals <<n, d>> (d > 0, lowest terms); <<0, 0>> stands    *)
(* for any non-finite value (inf, nan) a division by zero produces.  The   *)
(* float32 storage of the matrices and rounding noise are not modelled;    *)
(* the inputs below are small integers and simple fractions.               *)
(***************************************************************************)
EXTENDS Integers, Sequences, FiniteSets, TLC

(***************************************************************************)
(* Bounds of the model.                                                    *)
(***************************************************************************)
MaxSlices == 2
MaxCoord == 2

(***************************************************************************)
(* Exact rational arithmetic.                                              *)
(***************************************************************************)
Abs(x) == IF x < 0 THEN -x ELSE x

RECURSIVE GCD(_, _)
GCD(a, b) == IF b = 0 THEN a ELSE GCD(b, a % b)

NaN == <<0, 0>>

Rat(n, d) ==
    IF d = 0 THEN NaN
    ELSE LET g == GCD(Abs(n), Abs(d))
             s == IF d < 0 THEN -1 ELSE 1
         IN  <<(s * n) \div g, (s * d) \div g>>

I(n) == <<n, 1>>
IsFinite(a) == a[2] # 0

RAdd(a, b) == IF a[2] = 0 \/ b[2] = 0 THEN NaN
              ELSE Rat(a[1] * b[2] + b[1] * a[2], a[2] * b[2])
RNeg(a) == IF a[2] = 0 THEN NaN ELSE <<-a[1], a[2]>>
RSub(a, b) == RAdd(a, RNeg(b))
RMul(a, b) == IF a[2] = 0 \/ b[2] = 0 THEN NaN
              ELSE Rat(a[1] * b[1], a[2] * b[2])
\* x / 0 is inf or nan in numpy (a warning, no exception).
RDiv(a, b) == IF a[2] = 0 \/ b[2] = 0 \/ b[1] = 0 THEN NaN
              ELSE Rat(a[1] * b[2], a[2] * b[1])
RAbs(a) == <<Abs(a[1]), a[2]>>
\* Every comparison with a non-finite value is false.
RLe(a, b) == IsFinite(a) /\ IsFinite(b) /\ a[1] * b[2] <= b[1] * a[2]

\* 3-vectors of rationals.
Dot(u, v) == RAdd(RAdd(RMul(u[1], v[1]), RMul(u[2], v[2])), RMul(u[3], v[3]))
Cross(u, v) == << RSub(RMul(u[2], v[3]), RMul(u[3], v[2])),
                  RSub(RMul(u[3], v[1]), RMul(u[1], v[3])),
                  RSub(RMul(u[1], v[2]), RMul(u[2], v[1])) >>
Scale(u, k) == << RMul(u[1], k), RMul(u[2], k), RMul(u[3], k) >>
DivBy(u, k) == << RDiv(u[1], k), RDiv(u[2], k), RDiv(u[3], k) >>
Vec(a, b, c) == << I(a), I(b), I(c) >>

(***************************************************************************)
(* np.allclose(a, b, atol=1e-3) with the default rtol=1e-5:                *)
(*     |a - b| <= atol + rtol * |b|.                                       *)
(***************************************************************************)
AllCloseZero(a) == RLe(RAbs(a), Rat(1, 1000))

(***************************************************************************)
(* np.allclose(np.linalg.norm(v), 1.0, atol=1e-3): | |v| - 1 | <= 0.00101, *)
(* stated on the squared norm: 0.99899^2 <= |v|^2 <= 1.00101^2.  The two   *)
(* squares are cut to six decimals (inward), which is exact for every      *)
(* squared norm with a denominator below 10^4.                             *)
(***************************************************************************)
SquaredNormCloseOne(n2) ==
    /\ IsFinite(n2)
    /\ n2[1] <= 2 * n2[2]
    /\ RLe(Rat(997982, 1000000), n2)
    /\ RLe(n2, Rat(1002021, 1000000))

NormCloseOne(v) == SquaredNormCloseOne(Dot(v, v))

(***************************************************************************)
(* get_slice_directions: the row and column directions are the two halves  *)
(* of ImageOrientationPatient, the slice direction their cross product.    *)
(* Raises unless dot(row, column) is close to 0 and |slice| is close to 1. *)
(***************************************************************************)
Directions(row_direction, column_direction, slice_direction) ==
    [raised |-> ~AllCloseZero(Dot(row_direction, column_direction))
                \/ ~NormCloseOne(slice_direction),
     row |-> row_direction, col |-> column_direction, slice |-> slice_direction]

get_slice_directions(orientation) ==
    Directions(orientation[1], orientation[2], Cross(orientation[1], orientation[2]))

(***************************************************************************)
(* A series: one orientation and pixel spacing shared by its slices, the   *)
(* ImagePositionPatient of each slice, and the pixel dimensions.  A slice's *)
(* SOPInstanceUID is its index in the series.                              *)
(***************************************************************************)
NSlices(series) == Len(series.positions)

\* get_slice_position: dot(slice_direction, ImagePositionPatient); raises
\* when get_slice_directions does.
SlicePosition(d, position) ==
    [raised |-> d.raised, value |-> Dot(d.slice, position)]

get_slice_position(series, k) ==
    SlicePosition(get_slice_directions(series.orientation), series.positions[k])

\* get_spacing_between_slices
SpacingBetween(first, last, n) ==
    [raised |-> first.raised \/ last.raised,
     value |-> RDiv(RSub(last.value, first.value), I(n - 1))]

get_spacing_between_slices(series) ==
    IF NSlices(series) > 1
    THEN SpacingBetween(get_slice_position(series, 1),
                        get_slice_position(series, NSlices(series)),
                        NSlices(series))
    ELSE [raised |-> FALSE, value |-> I(1)]

(***************************************************************************)
(* A 4x4 matrix is a sequence of four rows of four rationals.              *)
(***************************************************************************)
Columns4(c0, c1, c2, offset) ==
    << <<c0[1], c1[1], c2[1], offset[1]>>,
       <<c0[2], c1[2], c2[2], offset[2]>>,
       <<c0[3], c1[3], c2[3], offset[3]>>,
       <<I(0), I(0), I(0), I(1)>> >>

PixelToPatient(offset, spacing, sp, d) ==
    [raised |-> sp.raised \/ d.raised,
     mat |-> Columns4(Scale(d.row, spacing[1]), Scale(d.col, spacing[2]),
                      Scale(d.slice, sp.value), offset)]

get_pixel_to_patient_transformation_matrix(series) ==
    PixelToPatient(series.positions[1], series.spacing,
                   get_spacing_between_slices(series),
                   get_slice_directions(series.orientation))

\* linear rows l0, l1, l2 and the translation offset.dot(-linear.T)
Rows4(l0, l1, l2, offset) ==
    << <<l0[1], l0[2], l0[3], RNeg(Dot(offset, l0))>>,
       <<l1[1], l1[2], l1[3], RNeg(Dot(offset, l1))>>,
       <<l2[1], l2[2], l2[3], RNeg(Dot(offset, l2))>>,
       <<I(0), I(0), I(0), I(1)>> >>

PatientToPixel(offset, spacing, sp, d) ==
    [raised |-> sp.raised \/ d.raised,
     mat |-> Rows4(DivBy(d.row, spacing[1]), DivBy(d.col, spacing[2]),
                   DivBy(d.slice, sp.value), offset)]

get_patient_to_pixel_transformation_matrix(series) ==
    PatientToPixel(series.positions[1], series.spacing,
                   get_spacing_between_slices(series),
                   get_slice_directions(series.orientation))

\* apply_transformation_to_3d_points, for one point: (p, 1) . M^T, first
\* three coordinates.
apply_transformation_to_3d_point(p, m) ==
    [k \in 1..3 |->
        RAdd(RAdd(RAdd(RMul(m[k][1], p[1]), RMul(m[k][2], p[2])),
                  RMul(m[k][3], p[3])), m[k][4])]


(***************************************************************************)
(* State.  Three independent call sites of the module are modelled, each   *)
(* with its own record of locals:                                          *)
(*   geom  a caller resolving the geometry of a series and building and    *)
(*         applying the two transforms;                                    *)
(*   line  one call of draw_line_upwards_from_point, one loop iteration    *)
(*         per step;                                                       *)
(*   conv  a mask -> contours -> mask conversion, one slice per step.      *)
(***************************************************************************)
VARIABLES geom, line, conv

vars == <<geom, line, conv>>

None == "none"

(***************************************************************************)
(* Inputs of the geometry calls.                                           *)
(***************************************************************************)
DirectionSet ==
    { Vec(1, 0, 0), Vec(0, 1, 0), Vec(1, 1, 0), Vec(2, 0, 0),
      <<Rat(0, 1), Rat(1, 2), Rat(0, 1)>>,
      <<Rat(3, 5), Rat(4, 5), Rat(0, 1)>>,
      <<Rat(-4, 5), Rat(3, 5), Rat(0, 1)>> }

OrientationSet == DirectionSet \X DirectionSet

SpacingSet == { <<I(1), I(1)>>, <<Rat(1, 2), I(2)>> }

\* ImagePositionPatient of the slices: a fixed in-plane origin and a height
\* per slice, in ascending order (load_sorted_image_series sorts ascending;
\* two slices may share a position).
PositionsSet ==
    UNION { { [k \in 1..n |-> Vec(10, -5, z[k])] :
                z \in { f \in [1..n -> 0..MaxCoord] :
                          \A k \in 1..(n - 1) : f[k] <= f[k + 1] } } :
            n \in 1..MaxSlices }

GeomSeriesSet ==
    { [orientation |-> o, spacing |-> s, positions |-> ps] :
        o \in OrientationSet, s \in SpacingSet, ps \in PositionsSet }

PointSet == { Vec(a, b, c) : a \in {0, MaxCoord}, b \in {0, MaxCoord},
                             c \in {0, MaxCoord} }

GeomIdle == [pc |-> "idle", series |-> None, dirs |-> None, fwd |-> None,
             inv |-> None, p |-> None, q |-> None]

GeomStart(series) == [GeomIdle EXCEPT !.pc = "start", !.series = series]

\* The caller's state once a call has returned r or raised.
AfterDirections(g, d) ==
    [g EXCEPT !.dirs = d, !.pc = IF d.raised THEN "invalid" ELSE "resolved"]

AfterForward(g, r) ==
    IF r.raised THEN [g EXCEPT !.pc = "raised"]
    ELSE [g EXCEPT !.fwd = r.mat, !.pc = "forward"]

AfterInverse(g, r) ==
    IF r.raised THEN [g EXCEPT !.pc = "raised"]
    ELSE [g EXCEPT !.inv = r.mat, !.pc = "inverse"]

\* A caller resolves the directions of the reference slice.
GeomDirections ==
    /\ geom.pc = "start"
    /\ geom' = AfterDirections(geom, get_slice_directions(geom.series.orientation))
    /\ UNCHANGED <<line, conv>>

\* Transform.Forward: raises when the resolver does.
GeomForward ==
    /\ geom.pc \in {"resolved", "invalid"}
    /\ geom' = AfterForward(geom,
                            get_pixel_to_patient_transformation_matrix(geom.series))
    /\ UNCHANGED <<line, conv>>

\* Transform.Inverse
GeomInverse ==
    /\ geom.pc = "forward"
    /\ geom' = AfterInverse(geom,
                            get_patient_to_pixel_transformation_matrix(geom.series))
    /\ UNCHANGED <<line, conv>>

\* Inverse(Forward(p)) for a pixel-space point p.
GeomRoundTrip ==
    /\ geom.pc = "inverse"
    /\ \E p \in PointSet :
          geom' = [geom EXCEPT
                     !.p = p,
                     !.q = apply_transformation_to_3d_point(
                              apply_transformation_to_3d_point(p, geom.fwd),
                              geom.inv),
                     !.pc = "applied"]
    /\ UNCHANGED <<line, conv>>

NextGeom == GeomDirections \/ GeomForward \/ GeomInverse \/ GeomRoundTrip


(***************************************************************************)
(* Two-dimensional masks.  A mask is its shape and the set of its          *)
(* foreground pixels <<r, c>> (axis 0, axis 1), indexed from 0.            *)
(***************************************************************************)
Mask2D(rows, cols, on) == [rows |-> rows, cols |-> cols, on |-> on]

Pixels(rows, cols) == (0..(rows - 1)) \X (0..(cols - 1))

\* numpy indexing of an axis of length n: -n <= i < n, a negative index
\* counting from the end; anything else is an IndexError.
IndexInBounds(i, n) == i >= -n /\ i < n
NumpyIndex(i, n) == IF i < 0 THEN i + n ELSE i

\* mask[point] for an integer point.
PixelAt(mask, point) ==
    <<NumpyIndex(point[1], mask.rows), NumpyIndex(point[2], mask.cols)>>

(***************************************************************************)
(* skimage.draw.line_aa(r0, c0, r1, c1) for an axis-aligned line, the only *)
(* kind draw_line_upwards_from_point draws.  With dr = 0 (or dc = 0) the   *)
(* error term of the anti-aliased Bresenham walk stays at its initial      *)
(* value, no neighbouring pixel is emitted, and the result is the run of    *)
(* pixels from the first point to the second, both included.  The caller   *)
(* writes fill_value to every returned pixel whatever its weight.          *)
(***************************************************************************)
Between(a, b) == IF a <= b THEN a..b ELSE b..a

line_aa(p0, p1) ==
    IF p0[1] = p1[1] THEN { <<p0[1], c>> : c \in Between(p0[2], p1[2]) }
    ELSE { <<r, p0[2]>> : r \in Between(p0[1], p1[1]) }

line_width == 2

(***************************************************************************)
(* draw_line_upwards_from_point, one loop iteration per step.              *)
(*   entry      end = (start[0], start[1] - 1)                             *)
(*   test       mask[end] != fill_value  (IndexError when end is not a     *)
(*              valid index); fill_value is 0, the background              *)
(*   body       mask[line_aa(start, end)] = fill_value; start = end;        *)
(*              end = (start[0], start[1] - line_width)                     *)
(***************************************************************************)
LineFirstEnd(start) == <<start[1], start[2] - 1>>

\* A walk that steps along axis 0 instead of axis 1.
LineNextEndAlongRows(start) == <<start[1] - line_width, start[2]>>

LineNextEnd(start) == <<start[1], start[2] - line_width>>

LineTestRaises(mask, endp) ==
    ~(IndexInBounds(endp[1], mask.rows) /\ IndexInBounds(endp[2], mask.cols))

LineTest(mask, endp) == PixelAt(mask, endp) \in mask.on

LineFill(mask, start, endp) ==
    [mask EXCEPT !.on = @ \ { PixelAt(mask, q) : q \in line_aa(start, endp) }]

LineIdle == [pc |-> "idle", mask |-> None, start |-> None, end |-> None,
             iters |-> 0, mask0 |-> None, start0 |-> None]

\* Shapes of the masks a line is carved in.
MaxLineCells == 8

LineShapes == { s \in (1..MaxLineCells) \X (1..MaxLineCells) :
                  s[1] * s[2] <= MaxLineCells }

LineStart(mask, start) ==
    [LineIdle EXCEPT !.pc = "call", !.mask = mask, !.start = start,
                     !.mask0 = mask, !.start0 = start]

LineEnter ==
    /\ line.pc = "call"
    /\ line' = [line EXCEPT !.pc = "loop", !.end = LineFirstEnd(line.start)]
    /\ UNCHANGED <<geom, conv>>

\* The loop test raises IndexError.
LineRaise ==
    /\ line.pc = "loop"
    /\ LineTestRaises(line.mask, line.end)
    /\ line' = [line EXCEPT !.pc = "raised"]
    /\ UNCHANGED <<geom, conv>>

\* The loop test finds the fill value: return mask.astype(bool).
LineReturn ==
    /\ line.pc = "loop"
    /\ ~LineTestRaises(line.mask, line.end)
    /\ ~LineTest(line.mask, line.end)
    /\ line' = [line EXCEPT !.pc = "returned"]
    /\ UNCHANGED <<geom, conv>>

\* One execution of the loop body.
LineIterate ==
    /\ line.pc = "loop"
    /\ ~LineTestRaises(line.mask, line.end)
    /\ LineTest(line.mask, line.end)
    /\ line' = [line EXCEPT !.mask = LineFill(line.mask, line.start, line.end),
                            !.start = line.end,
                            !.end = LineNextEnd(line.end),
                            !.iters = @ + 1]
    /\ UNCHANGED <<geom, conv>>

NextLine == LineEnter \/ LineRaise \/ LineReturn \/ LineIterate


(***************************************************************************)
(* skimage.measure.find_contours(mask, level=None, fully_connected='low',  *)
(* positive_orientation='low') on a boolean image.  The level is the mean  *)
(* of the image's minimum and maximum, 0.5 whenever a pixel is set, so     *)
(* "value > level" is "the pixel is foreground" and every crossing lies    *)
(* half way between two pixel centres.  A contour point is kept here as    *)
(* <<2 r, 2 c>>: twice its (row, column) coordinates, both integers.       *)
(*                                                                         *)
(* Marching squares: each 2x2 square of pixels, in raster order, yields   *)
(* the directed segments of its case; squares lie inside the image, so a   *)
(* region touching the image border has no segment along the border.       *)
(***************************************************************************)
SquareCase(mask, r0, c0) ==
      (IF <<r0, c0>> \in mask.on THEN 1 ELSE 0)
    + (IF <<r0, c0 + 1>> \in mask.on THEN 2 ELSE 0)
    + (IF <<r0 + 1, c0>> \in mask.on THEN 4 ELSE 0)
    + (IF <<r0 + 1, c0 + 1>> \in mask.on THEN 8 ELSE 0)

SquareSegments(mask, r0, c0) ==
    LET top == <<2 * r0, 2 * c0 + 1>>
        bottom == <<2 * r0 + 2, 2 * c0 + 1>>
        left == <<2 * r0 + 1, 2 * c0>>
        right == <<2 * r0 + 1, 2 * c0 + 2>>
        sc == SquareCase(mask, r0, c0)
    IN  CASE sc = 1 -> << <<top, left>> >>
          [] sc = 2 -> << <<right, top>> >>
          [] sc = 3 -> << <<right, left>> >>
          [] sc = 4 -> << <<left, bottom>> >>
          [] sc = 5 -> << <<top, bottom>> >>
          \* fully_connected='low': vertex_connect_high is false
          [] sc = 6 -> << <<right, top>>, <<left, bottom>> >>
          [] sc = 7 -> << <<right, bottom>> >>
          [] sc = 8 -> << <<bottom, right>> >>
          [] sc = 9 -> << <<top, left>>, <<bottom, right>> >>
          [] sc = 10 -> << <<bottom, top>> >>
          [] sc = 11 -> << <<bottom, left>> >>
          [] sc = 12 -> << <<left, right>> >>
          [] sc = 13 -> << <<top, right>> >>
          [] sc = 14 -> << <<left, top>> >>
          [] OTHER -> << >>

RECURSIVE SegmentsFrom(_, _)
SegmentsFrom(mask, k) ==
    IF k >= (mask.rows - 1) * (mask.cols - 1) THEN << >>
    ELSE SquareSegments(mask, k \div (mask.cols - 1), k % (mask.cols - 1))
         \o SegmentsFrom(mask, k + 1)

get_contour_segments(mask) == SegmentsFrom(mask, 0)

(***************************************************************************)
(* _assemble_contours: the segments are joined, in order, into contours.   *)
(* st.contours maps a contour number to its points, st.starts and st.ends  *)
(* map a point to the number of the contour that starts / ends there.      *)
(***************************************************************************)
Without(f, k) == [x \in DOMAIN f \ {k} |-> f[x]]
With(f, k, v) == (k :> v) @@ f

AssembleStep(st, seg) ==
    LET from_point == seg[1]
        to_point == seg[2]
        has_tail == to_point \in DOMAIN st.starts
        has_head == from_point \in DOMAIN st.ends
        tail_num == st.starts[to_point]
        head_num == st.ends[from_point]
        starts == IF has_tail THEN Without(st.starts, to_point) ELSE st.starts
        ends == IF has_head THEN Without(st.ends, from_point) ELSE st.ends
    IN  IF from_point = to_point THEN st
        ELSE IF has_tail /\ has_head THEN
            LET tail == st.contours[tail_num]
                head == st.contours[head_num]
            IN  IF tail_num = head_num
                THEN \* close the contour: add the end point
                     [st EXCEPT !.contours[head_num] = Append(head, to_point),
                                !.starts = starts, !.ends = ends]
                ELSE IF tail_num > head_num
                THEN \* append tail to head
                     LET joined == head \o tail
                     IN  [st EXCEPT
                            !.contours = With(Without(st.contours, tail_num),
                                              head_num, joined),
                            !.starts = With(starts, joined[1], head_num),
                            !.ends = With(ends, joined[Len(joined)], head_num)]
                ELSE \* prepend head to tail
                     LET joined == head \o tail
                         starts2 == IF head[1] \in DOMAIN starts
                                    THEN Without(starts, head[1]) ELSE starts
                     IN  [st EXCEPT
                            !.contours = With(Without(st.contours, head_num),
                                              tail_num, joined),
                            !.starts = With(starts2, joined[1], tail_num),
                            !.ends = With(ends, joined[Len(joined)], tail_num)]
        ELSE IF ~has_tail /\ ~has_head THEN
            [st EXCEPT !.contours = With(st.contours, st.next,
                                         <<from_point, to_point>>),
                       !.starts = With(starts, from_point, st.next),
                       !.ends = With(ends, to_point, st.next),
                       !.next = @ + 1]
        ELSE IF ~has_head THEN
            [st EXCEPT !.contours[tail_num] = <<from_point>> \o @,
                       !.starts = With(starts, from_point, tail_num),
                       !.ends = ends]
        ELSE
            [st EXCEPT !.contours[head_num] = Append(@, to_point),
                       !.starts = starts,
                       !.ends = With(ends, to_point, head_num)]

RECURSIVE AssembleFrom(_, _, _)
AssembleFrom(st, segs, k) ==
    IF k > Len(segs) THEN st
    ELSE AssembleFrom(AssembleStep(st, segs[k]), segs, k + 1)

\* The contours sorted by contour number.
RECURSIVE SortedContours(_, _)
SortedContours(contours, nums) ==
    IF nums = {} THEN << >>
    ELSE LET m == CHOOSE x \in nums : \A y \in nums : x <= y
         IN  <<contours[m]>> \o SortedContours(contours, nums \ {m})

assemble_contours(segs) ==
    LET empty == [x \in {} |-> 0]
        st == AssembleFrom([contours |-> empty, starts |-> empty,
                            ends |-> empty, next |-> 0], segs, 1)
    IN  SortedContours(st.contours, DOMAIN st.contours)

\* find_mask_contours ignores approximate_contours.
find_mask_contours(mask, approximate_contours) ==
    assemble_contours(get_contour_segments(mask))


(***************************************************************************)
(* draw_line_upwards_from_point as a function: the loop of the steps       *)
(* above, run to its end.  create_pin_hole_mask passes as start the first  *)
(* point of a contour, a pair of numpy floats; end is then a pair of       *)
(* floats too and the first loop test, mask[end], raises IndexError (numpy *)
(* accepts only integers as indices) before any pixel is written.          *)
(***************************************************************************)
RECURSIVE LineLoop(_, _, _)
LineLoop(mask, start, endp) ==
    IF LineTestRaises(mask, endp) THEN [raised |-> TRUE, mask |-> mask]
    ELSE IF ~LineTest(mask, endp) THEN [raised |-> FALSE, mask |-> mask]
    ELSE LineLoop(LineFill(mask, start, endp), endp, LineNextEnd(endp))

draw_line_upwards_from_point(mask, start, is_float) ==
    IF is_float THEN [raised |-> TRUE, mask |-> mask]
    ELSE LineLoop(mask, start, LineFirstEnd(start))

(***************************************************************************)
(* create_pin_hole_mask: a line is drawn from the first point of every     *)
(* contour find_mask_contours returns (find_contours gives no hierarchy,   *)
(* so outer and inner boundaries are treated alike).                       *)
(***************************************************************************)
RECURSIVE PinHoleLoop(_, _, _)
PinHoleLoop(pin_hole_mask, contours, k) ==
    IF k > Len(contours) THEN [raised |-> FALSE, mask |-> pin_hole_mask]
    ELSE LET line_start == contours[k][1]
             r == draw_line_upwards_from_point(pin_hole_mask, line_start, TRUE)
         IN  IF r.raised THEN [raised |-> TRUE, mask |-> pin_hole_mask]
             ELSE PinHoleLoop(r.mask, contours, k + 1)

create_pin_hole_mask(mask, approximate_contours) ==
    PinHoleLoop(mask, find_mask_contours(mask, approximate_contours), 1)

\* A validation that accepts every list.
validate_contours_accepting(contours) == FALSE

\* validate_contours raises on an empty list.
validate_contours(contours) == Len(contours) = 0

(***************************************************************************)
(* The body of the slice loop of get_contours_coords for a non-blank       *)
(* plane: each contour point (r, c) is reordered to (c, r), given the      *)
(* slice index as third coordinate, transformed and flattened.             *)
(***************************************************************************)
RECURSIVE Ravel(_)
Ravel(points) ==
    IF points = << >> THEN << >>
    ELSE <<points[1][1], points[1][2], points[1][3]>> \o Ravel(Tail(points))

FormatContour(contour, i, transformation_matrix) ==
    Ravel([k \in 1..Len(contour) |->
             apply_transformation_to_3d_point(
                 <<Rat(contour[k][2], 2), Rat(contour[k][1], 2), I(i)>>,
                 transformation_matrix)])

TraceSlice(plane, use_pin_hole, approximate_contours, i, transformation_matrix) ==
    LET pin == IF use_pin_hole
               THEN create_pin_hole_mask(plane, approximate_contours)
               ELSE [raised |-> FALSE, mask |-> plane]
        contours == find_mask_contours(pin.mask, approximate_contours)
    IN  IF pin.raised THEN [raised |-> TRUE, error |-> "IndexError", contours |-> << >>]
        ELSE IF validate_contours(contours)
        THEN [raised |-> TRUE, error |-> "EmptyContour", contours |-> << >>]
        ELSE [raised |-> FALSE, error |-> None,
              contours |-> [c \in 1..Len(contours) |->
                               FormatContour(contours[c], i, transformation_matrix)]]

(***************************************************************************)
(* np.around(x).astype(np.int32): round to nearest, halves to even.        *)
(***************************************************************************)
RoundHalfEven(a) ==
    LET fl == a[1] \div a[2]
        twice == 2 * (a[1] - fl * a[2])
    IN  IF twice < a[2] THEN fl
        ELSE IF twice > a[2] THEN fl + 1
        ELSE IF fl % 2 = 0 THEN fl ELSE fl + 1

(***************************************************************************)
(* skimage.draw.polygon2mask(image_shape, polygon): the pixels (r, c) of   *)
(* the image, within the polygon's bounding box, for which                 *)
(* point_in_polygon(cols, rows, c, r) is not OUTSIDE.  point_in_polygon    *)
(* counts the crossings of the polygon's edges with the ray to the right   *)
(* and the ray to the left of the point: 0 outside, 1 inside, 2 a vertex,  *)
(* 3 on an edge.                                                           *)
(***************************************************************************)
RECURSIVE PointInPolygonFrom(_, _, _, _, _, _, _, _)
PointInPolygonFrom(polygon, x, y, k, x0, y0, r_cross, l_cross) ==
    IF k > Len(polygon)
    THEN IF (r_cross % 2) # (l_cross % 2) THEN 3
         ELSE IF r_cross % 2 = 1 THEN 1 ELSE 0
    ELSE LET x1 == polygon[k][2] - x
             y1 == polygon[k][1] - y
             num == x1 * y0 - x0 * y1
             den == y0 - y1
             r_hit == ((y1 > 0) # (y0 > 0)) /\ num * den > 0
             l_hit == ((y1 < 0) # (y0 < 0)) /\ num * den < 0
         IN  IF x1 = 0 /\ y1 = 0 THEN 2
             ELSE PointInPolygonFrom(polygon, x, y, k + 1, x1, y1,
                                     r_cross + (IF r_hit THEN 1 ELSE 0),
                                     l_cross + (IF l_hit THEN 1 ELSE 0))

point_in_polygon(polygon, x, y) ==
    LET n == Len(polygon)
    IN  PointInPolygonFrom(polygon, x, y, 1, polygon[n][2] - x,
                           polygon[n][1] - y, 0, 0)

SetMin(S) == CHOOSE x \in S : \A y \in S : x <= y
SetMax(S) == CHOOSE x \in S : \A y \in S : x >= y

polygon2mask(image_shape, polygon) ==
    LET rs == { polygon[k][1] : k \in 1..Len(polygon) }
        cs == { polygon[k][2] : k \in 1..Len(polygon) }
        minr == SetMax({0, SetMin(rs)})
        maxr == SetMin({image_shape[1] - 1, SetMax(rs)})
        minc == SetMax({0, SetMin(cs)})
        maxc == SetMin({image_shape[2] - 1, SetMax(cs)})
    IN  Mask2D(image_shape[1], image_shape[2],
               { px \in (minr..maxr) \X (minc..maxc) :
                   point_in_polygon(polygon, px[2], px[1]) # 0 })

(***************************************************************************)
(* The contour sequence of an ROI: each contour has a ContourImageSequence *)
(* (the SOPInstanceUIDs it references) and its flat ContourData.           *)
(***************************************************************************)
RECURSIVE MatchesFrom(_, _, _)
MatchesFrom(contour, uid, k) ==
    IF k > Len(contour.ContourImageSequence) THEN << >>
    ELSE (IF contour.ContourImageSequence[k] = uid
          THEN <<contour.ContourData>> ELSE << >>)
         \o MatchesFrom(contour, uid, k + 1)

RECURSIVE SliceContourDataFrom(_, _, _)
SliceContourDataFrom(uid, contour_sequence, k) ==
    IF k > Len(contour_sequence) THEN << >>
    ELSE MatchesFrom(contour_sequence[k], uid, 1)
         \o SliceContourDataFrom(uid, contour_sequence, k + 1)

get_slice_contour_data(uid, contour_sequence) ==
    SliceContourDataFrom(uid, contour_sequence, 1)

\* np.reshape(contour_coords, [len // 3, 3])
Reshape(flat) ==
    [k \in 1..(Len(flat) \div 3) |-> <<flat[3 * k - 2], flat[3 * k - 1], flat[3 * k]>>]

\* One contour, transformed to pixel space, rounded, first two coordinates.
ContourPolygon(contour_coords, transformation_matrix) ==
    LET reshaped == Reshape(contour_coords)
    IN  [k \in 1..Len(reshaped) |->
            LET t == apply_transformation_to_3d_point(reshaped[k],
                                                      transformation_matrix)
            IN  <<RoundHalfEven(t[1]), RoundHalfEven(t[2])>>]

(***************************************************************************)
(* get_slice_mask_from_slice_contour_data: every contour's polygon is      *)
(* appended to the list polygons, and polygon2mask is then given polygon,  *)
(* the loop variable, which holds the polygon of the last contour.         *)
(***************************************************************************)
get_slice_mask_from_slice_contour_data(slice_contour_data, transformation_matrix, image_shape) ==
    LET polygons == [k \in 1..Len(slice_contour_data) |->
                        ContourPolygon(slice_contour_data[k], transformation_matrix)]
        polygon == polygons[Len(polygons)]
    IN  polygon2mask(image_shape, polygon)

\* create_empty_series_mask: shape (Columns, Rows, len(series)).
create_empty_series_mask(series) ==
    [k \in 1..NSlices(series) |-> Mask2D(series.Columns, series.Rows, {})]


(***************************************************************************)
(* The conversions, one slice per step.  conv holds the arguments          *)
(* (series, roi), the locals of the running call (i, transformation_matrix,*)
(* series_contours, mask), what the caller received (gc_result and         *)
(* cm_result: << >> until the call returns, then <<value>>) and the        *)
(* exception that ended a call.  pin_hole records the create_pin_hole_mask *)
(* call of the slice traced last: << >>, or <<[input, raised, mask]>>.     *)
(***************************************************************************)
NoRoi == [mask |-> << >>, use_pin_hole |-> FALSE, approximate_contours |-> FALSE]

ConvIdle == [pc |-> "idle", series |-> None, roi |-> NoRoi, i |-> 0,
             transformation_matrix |-> None, series_contours |-> << >>,
             pin_hole |-> << >>, gc_result |-> << >>,
             contour_sequence |-> << >>, mask |-> << >>, cm_result |-> << >>,
             error |-> None]

\* mask_slice = roi_data.mask[:, :, i]
Plane(c, i) == c.roi.mask[i + 1]

\* An error path that hands the caller the slices traced so far.
GcRaisePartial(c, err) ==
    [c EXCEPT !.pc = "gc_raised", !.error = err,
              !.gc_result = <<c.series_contours>>]

\* An exception leaves get_contours_coords: the caller receives nothing.
GcRaise(c, err) == [c EXCEPT !.pc = "gc_raised", !.error = err]

\* An exception leaves create_series_mask_from_contour_sequence.
CmRaise(c, err) == [c EXCEPT !.pc = "cm_raised", !.error = err]

GcAfterTransform(c, t) ==
    IF t.raised THEN GcRaise(c, "InvalidGeometry")
    ELSE [c EXCEPT !.pc = "gc_loop", !.transformation_matrix = t.mat,
                   !.series_contours = << >>, !.i = 0]

\* get_contours_coords, up to the slice loop.
GcBegin ==
    /\ conv.pc = "gc_call"
    /\ conv' = GcAfterTransform(
                   conv, get_pixel_to_patient_transformation_matrix(conv.series))
    /\ UNCHANGED <<geom, line>>

\* A blank plane: an empty list is appended.
GcSliceBlank ==
    /\ conv.pc = "gc_loop"
    /\ conv.i < NSlices(conv.series)
    /\ Plane(conv, conv.i).on = {}
    /\ conv' = [conv EXCEPT !.series_contours = Append(@, << >>),
                            !.i = @ + 1]
    /\ UNCHANGED <<geom, line>>

TraceCurrent(c) ==
    TraceSlice(Plane(c, c.i), c.roi.use_pin_hole, c.roi.approximate_contours,
               c.i, c.transformation_matrix)

PinHoleCall(plane, r) == <<[input |-> plane, raised |-> r.raised, mask |-> r.mask]>>

PinHoleCurrent(c) ==
    IF c.roi.use_pin_hole
    THEN PinHoleCall(Plane(c, c.i),
                     create_pin_hole_mask(Plane(c, c.i), c.roi.approximate_contours))
    ELSE << >>

\* A non-blank plane is traced and its contours appended.
GcSliceTrace ==
    /\ conv.pc = "gc_loop"
    /\ conv.i < NSlices(conv.series)
    /\ Plane(conv, conv.i).on # {}
    /\ ~TraceCurrent(conv).raised
    /\ conv' = [conv EXCEPT
                  !.series_contours = Append(@, TraceCurrent(conv).contours),
                  !.pin_hole = PinHoleCurrent(conv),
                  !.i = @ + 1]
    /\ UNCHANGED <<geom, line>>

\* Tracing a non-blank plane raises.
GcSliceRaise ==
    /\ conv.pc = "gc_loop"
    /\ conv.i < NSlices(conv.series)
    /\ Plane(conv, conv.i).on # {}
    /\ TraceCurrent(conv).raised
    /\ conv' = [GcRaise(conv, TraceCurrent(conv).error) EXCEPT
                  !.pin_hole = PinHoleCurrent(conv)]
    /\ UNCHANGED <<geom, line>>

GcReturn ==
    /\ conv.pc = "gc_loop"
    /\ conv.i = NSlices(conv.series)
    /\ conv' = [conv EXCEPT !.pc = "gc_returned",
                            !.gc_result = <<conv.series_contours>>]
    /\ UNCHANGED <<geom, line>>

(***************************************************************************)
(* The caller stores the contours: one contour sequence item per contour,  *)
(* in slice order, referencing the slice it was traced from.               *)
(***************************************************************************)
RECURSIVE SequenceFrom(_, _)
SequenceFrom(series_contours, k) ==
    IF k > Len(series_contours) THEN << >>
    ELSE [c \in 1..Len(series_contours[k]) |->
             [ContourImageSequence |-> <<k - 1>>,
              ContourData |-> series_contours[k][c]]]
         \o SequenceFrom(series_contours, k + 1)

BuildSequence ==
    /\ conv.pc = "gc_returned"
    /\ conv' = [conv EXCEPT !.pc = "cm_call",
                            !.contour_sequence = SequenceFrom(conv.gc_result[1], 1)]
    /\ UNCHANGED <<geom, line>>

CmAfterTransform(c, t) ==
    IF t.raised THEN CmRaise(c, "InvalidGeometry")
    ELSE [c EXCEPT !.pc = "cm_loop", !.transformation_matrix = t.mat, !.i = 0]

\* create_series_mask_from_contour_sequence, up to the slice loop.
CmBegin ==
    /\ conv.pc = "cm_call"
    /\ conv' = CmAfterTransform(
                   [conv EXCEPT !.mask = create_empty_series_mask(conv.series)],
                   get_patient_to_pixel_transformation_matrix(conv.series))
    /\ UNCHANGED <<geom, line>>

\* One iteration of the slice loop.
CmSlice ==
    /\ conv.pc = "cm_loop"
    /\ conv.i < NSlices(conv.series)
    /\ LET slice_contour_data ==
               get_slice_contour_data(conv.i, conv.contour_sequence)
           image_shape == <<conv.mask[1].rows, conv.mask[1].cols>>
       IN  conv' = IF Len(slice_contour_data) > 0
                   THEN [conv EXCEPT
                           !.mask[conv.i + 1] =
                               get_slice_mask_from_slice_contour_data(
                                   slice_contour_data,
                                   conv.transformation_matrix, image_shape),
                           !.i = @ + 1]
                   ELSE [conv EXCEPT !.i = @ + 1]
    /\ UNCHANGED <<geom, line>>

CmReturn ==
    /\ conv.pc = "cm_loop"
    /\ conv.i = NSlices(conv.series)
    /\ conv' = [conv EXCEPT !.pc = "cm_returned", !.cm_result = <<conv.mask>>]
    /\ UNCHANGED <<geom, line>>

NextConv ==
    \/ GcBegin \/ GcSliceBlank \/ GcSliceTrace \/ GcSliceRaise \/ GcReturn
    \/ BuildSequence \/ CmBegin \/ CmSlice \/ CmReturn

(***************************************************************************)
(* Inputs of the conversions.                                              *)
(***************************************************************************)
MaskSide == 5
MaxConvSlices == 2

\* Geometries: axis-aligned, rotated in plane with anisotropic spacing, and
\* one whose row and column directions are at 45 degrees (invalid).
ConvGeometrySet ==
    { [orientation |-> <<Vec(1, 0, 0), Vec(0, 1, 0)>>,
       spacing |-> <<I(1), I(1)>>, origin |-> Vec(0, 0, 0), step |-> I(1)],
      [orientation |-> << <<Rat(3, 5), Rat(4, 5), I(0)>>,
                          <<Rat(-4, 5), Rat(3, 5), I(0)>> >>,
       spacing |-> <<Rat(1, 2), I(2)>>, origin |-> Vec(10, -5, 3),
       step |-> Rat(3, 2)],
      [orientation |-> <<Vec(1, 0, 0), Vec(1, 1, 0)>>,
       spacing |-> <<I(1), I(1)>>, origin |-> Vec(0, 0, 0), step |-> I(1)] }

ConvSeries(g, n) ==
    [orientation |-> g.orientation, spacing |-> g.spacing,
     positions |-> [k \in 1..n |->
                       <<g.origin[1], g.origin[2],
                         RAdd(g.origin[3], RMul(I(k - 1), g.step))>>],
     Rows |-> MaskSide, Columns |-> MaskSide]

PlaneOf(on) == Mask2D(MaskSide, MaskSide, on)
EmptyPlane == PlaneOf({})
FullPlane == PlaneOf(Pixels(MaskSide, MaskSide))
Rect(r0, r1, c0, c1) == (r0..r1) \X (c0..c1)

\* Every axis-aligned block.
BlockPlanes ==
    { PlaneOf(Rect(r0, r1, c0, c1)) :
        r0 \in 0..(MaskSide - 1), r1 \in 0..(MaskSide - 1),
        c0 \in 0..(MaskSide - 1), c1 \in 0..(MaskSide - 1) }
    \ {EmptyPlane}

\* Every filled square with a smaller square hole strictly inside it.
RingPlanes ==
    { PlaneOf(Rect(r, r + a - 1, c, c + a - 1)
              \ Rect(r + dr, r + dr + b - 1, c + dc, c + dc + b - 1)) :
        <<r, c, a, dr, dc, b>> \in
          { t \in (0..(MaskSide - 1)) \X (0..(MaskSide - 1)) \X (3..MaskSide)
                  \X (1..MaskSide) \X (1..MaskSide) \X (1..MaskSide) :
              /\ t[1] + t[3] <= MaskSide /\ t[2] + t[3] <= MaskSide
              /\ t[4] + t[6] < t[3] /\ t[5] + t[6] < t[3] } }

\* The planes of the mixed masks.
MixedPlanes ==
    { EmptyPlane, FullPlane,
      PlaneOf(Rect(1, 2, 1, 3)),
      PlaneOf(Rect(1, 3, 1, 3) \ {<<2, 2>>}),
      PlaneOf({<<1, 1>>} \cup Rect(3, 3, 2, 3)),
      PlaneOf(Pixels(MaskSide, MaskSide) \ {<<2, 2>>}) }

\* Contour sequences handed to create_series_mask_from_contour_sequence
\* directly, in patient coordinates.
Quad(a, b, c, d, z) ==
    <<I(a), I(b), I(z), I(a), I(d), I(z), I(c), I(d), I(z), I(c), I(b), I(z)>>

GivenSequences ==
    { << >>,
      << [ContourImageSequence |-> <<0>>, ContourData |-> Quad(0, 0, 2, 2, 0)],
         [ContourImageSequence |-> <<7>>, ContourData |-> Quad(1, 1, 3, 3, 0)],
         [ContourImageSequence |-> <<0>>, ContourData |-> Quad(3, 1, 4, 2, 0)] >> }

ConvStart(series, mask, use_pin_hole, approximate_contours) ==
    [ConvIdle EXCEPT !.pc = "gc_call", !.series = series,
                     !.roi = [mask |-> mask, use_pin_hole |-> use_pin_hole,
                              approximate_contours |-> approximate_contours]]

(***************************************************************************)
(* Initial states: one call site runs, the other two stay idle.            *)
(***************************************************************************)
InitConv ==
    /\ geom = GeomIdle
    /\ line = LineIdle
    /\ \E n \in 1..MaxConvSlices : \E g \in ConvGeometrySet :
          \/ \E planes \in [1..n -> MixedPlanes] :
               \E ph \in BOOLEAN : \E ap \in BOOLEAN :
                  conv = ConvStart(ConvSeries(g, n), planes, ph, ap)
          \/ \E cs \in GivenSequences :
               conv = [ConvIdle EXCEPT !.pc = "cm_call",
                                       !.series = ConvSeries(g, n),
                                       !.contour_sequence = cs]

\* One block, anywhere, on one slice; every other slice blank.
InitRoundTrip ==
    /\ geom = GeomIdle
    /\ line = LineIdle
    /\ \E n \in 1..MaxConvSlices : \E g \in ConvGeometrySet :
          \E k \in 1..n : \E b \in BlockPlanes : \E ph \in BOOLEAN :
             conv = ConvStart(ConvSeries(g, n),
                              [j \in 1..n |-> IF j = k THEN b ELSE EmptyPlane],
                              ph, FALSE)

InitGeom ==
    /\ line = LineIdle
    /\ conv = ConvIdle
    /\ \E s \in GeomSeriesSet : geom = GeomStart(s)

InitLine ==
    /\ geom = GeomIdle
    /\ conv = ConvIdle
    /\ \E s \in LineShapes :
          \E on \in SUBSET Pixels(s[1], s[2]) :
             \E start \in Pixels(s[1], s[2]) :
                line = LineStart(Mask2D(s[1], s[2], on), start)

(***************************************************************************)
(* Specifications.                                                         *)
(***************************************************************************)
Spec == InitConv /\ [][NextConv]_vars

SpecRoundTrip == InitRoundTrip /\ [][NextConv]_vars

SpecGeom == InitGeom /\ [][NextGeom]_vars

SpecLine == InitLine /\ [][NextLine]_vars


(***************************************************************************)
(* Properties.                                                             *)
(***************************************************************************)

\* The slices of the series being converted, as indices into its sequences.
ConvSlices == 1..NSlices(conv.series)

(***************************************************************************)
(* C1.  Tracing a mask that holds a single axis-aligned block and          *)
(* rasterizing the contours again, with the same series, gives back the    *)
(* mask it started from.                                                   *)
(***************************************************************************)
C1_RoundTripReproducesBlock ==
    conv.pc = "cm_returned" => conv.cm_result = <<conv.roi.mask>>

(***************************************************************************)
(* C2.  The plane rasterized for a slice is the union of the filled        *)
(* polygons of every contour of the sequence that references that slice.   *)
(***************************************************************************)
FilledUnion(slice_contour_data, transformation_matrix, image_shape) ==
    UNION { polygon2mask(image_shape,
                         ContourPolygon(slice_contour_data[k],
                                        transformation_matrix)).on :
              k \in 1..Len(slice_contour_data) }

C2_SliceIsUnionOfItsContours ==
    conv.pc = "cm_returned" =>
        \A k \in ConvSlices :
            conv.cm_result[1][k].on =
                FilledUnion(get_slice_contour_data(k - 1, conv.contour_sequence),
                            conv.transformation_matrix,
                            <<conv.series.Rows, conv.series.Columns>>)

(***************************************************************************)
(* C3.  get_contours_coords returns one entry per slice, in slice order;   *)
(* the entry of a slice is the empty list exactly when the plane of that   *)
(* slice is all-false; and whenever tracing raises, the plane being traced *)
(* is not blank, whatever the flags.                                       *)
(***************************************************************************)
C3_OneEntryPerSlice ==
    /\ conv.pc = "gc_returned" =>
          /\ Len(conv.gc_result[1]) = NSlices(conv.series)
          /\ \A k \in ConvSlices :
                (conv.gc_result[1][k] = << >>) <=> (conv.roi.mask[k].on = {})
    /\ conv.pc \in {"gc_loop", "gc_raised", "gc_returned"} =>
          \A k \in 1..Len(conv.series_contours) :
             (conv.series_contours[k] = << >>) <=> (conv.roi.mask[k].on = {})
    /\ (conv.pc = "gc_raised" /\ conv.error # "InvalidGeometry") =>
          Plane(conv, conv.i).on # {}

\* A returned list with an empty entry for a blank plane and a non-empty
\* entry for a traced one.
C3_Witness ==
    /\ conv.pc = "gc_returned"
    /\ \E k \in ConvSlices :
          conv.roi.mask[k].on = {} /\ conv.gc_result[1][k] = << >>
    /\ \E k \in ConvSlices :
          conv.roi.mask[k].on # {} /\ conv.gc_result[1][k] # << >>

(***************************************************************************)
(* C4.  For a filled square with a smaller square hole inside it, the      *)
(* contours of the plane are two, create_pin_hole_mask returns, and the    *)
(* contours of what it returns are one.                                    *)
(***************************************************************************)
C4_PinHoleMergesContours ==
    (conv.pin_hole # << >> /\ conv.pin_hole[1].input \in RingPlanes) =>
        /\ Len(find_mask_contours(conv.pin_hole[1].input, FALSE)) = 2
        /\ ~conv.pin_hole[1].raised
        /\ Len(find_mask_contours(conv.pin_hole[1].mask, FALSE)) = 1

(***************************************************************************)
(* C5.  For a series whose geometry the resolver accepts, the              *)
(* patient-to-pixel transform undoes the pixel-to-patient transform on     *)
(* every point within 1e-4 per coordinate, and the slice spacing the       *)
(* transforms are built with is never zero.                                *)
(***************************************************************************)
WithinTolerance(a, b) ==
    IsFinite(a) /\ IsFinite(b) /\ RLe(RAbs(RSub(a, b)), Rat(1, 10000))

C5_TransformsInvertible ==
    /\ geom.pc = "applied" =>
          \A k \in 1..3 : WithinTolerance(geom.q[k], geom.p[k])
    /\ geom.pc \in {"forward", "inverse", "applied"} =>
          get_spacing_between_slices(geom.series).value # I(0)

(***************************************************************************)
(* C6.  get_slice_directions accepts an orientation exactly when its row   *)
(* and column directions are orthonormal: perpendicular and both of unit   *)
(* length, within the tolerance of the resolver.                           *)
(***************************************************************************)
Orthonormal(orientation) ==
    /\ AllCloseZero(Dot(orientation[1], orientation[2]))
    /\ NormCloseOne(orientation[1])
    /\ NormCloseOne(orientation[2])

C6_ValidatesOrthonormality ==
    geom.pc \in {"resolved", "invalid"} =>
        ((geom.pc = "resolved") <=> Orthonormal(geom.series.orientation))

(***************************************************************************)
(* C7.  A conversion that raises hands its caller nothing: no list of the  *)
(* slices traced so far, no partly rasterized mask.  Invalid geometry is   *)
(* raised before any slice has been traced or rasterized.                  *)
(***************************************************************************)
C7_FailureAbortsWholeConversion ==
    /\ conv.pc = "gc_raised" => conv.gc_result = << >> /\ conv.cm_result = << >>
    /\ conv.pc = "cm_raised" => conv.cm_result = << >>
    /\ conv.gc_result # << >> =>
          /\ conv.pc \notin {"gc_call", "gc_loop", "gc_raised"}
          /\ Len(conv.gc_result[1]) = NSlices(conv.series)
    /\ conv.cm_result # << >> => conv.pc = "cm_returned"
    /\ (conv.pc = "gc_raised" /\ conv.error = "InvalidGeometry") =>
          conv.i = 0 /\ conv.series_contours = << >> /\ conv.pin_hole = << >>
    /\ (conv.pc = "cm_raised" /\ conv.error = "InvalidGeometry") =>
          conv.i = 0 /\ \A k \in ConvSlices : conv.mask[k].on = {}

\* Tracing raised on a later slice after an earlier slice had been traced.
C7_Witness ==
    /\ conv.pc = "gc_raised"
    /\ conv.error = "EmptyContour"
    /\ conv.i >= 1
    /\ Len(conv.series_contours) >= 1
    /\ conv.series_contours[1] # << >>
    /\ conv.gc_result = << >>

(***************************************************************************)
(* C8.  draw_line_upwards_from_point clears foreground pixels of the row   *)
(* of the start point, walking towards column 0, and stops at the first    *)
(* background pixel it meets: no pixel at or beyond the nearest background *)
(* pixel before the start column is ever cleared.                          *)
(***************************************************************************)
BackgroundBefore(mask, start) ==
    { c \in 0..(start[2] - 1) : <<start[1], c>> \notin mask.on }

FirstBackgroundCol(mask, start) ==
    IF BackgroundBefore(mask, start) = {} THEN -1
    ELSE CHOOSE c \in BackgroundBefore(mask, start) :
            \A d \in BackgroundBefore(mask, start) : d <= c

C8_LineStopsAtFirstBackground ==
    line.pc # "idle" =>
        \A px \in line.mask0.on \ line.mask.on :
            /\ px[1] = line.start0[1]
            /\ px[2] <= line.start0[2]
            /\ px[2] > FirstBackgroundCol(line.mask0, line.start0)

(***************************************************************************)
(* C9.  create_pin_hole_mask draws its line only from contours that are    *)
(* inner boundaries: for a plane that encloses no hole no line is drawn,   *)
(* and the call returns the plane unchanged.                               *)
(***************************************************************************)
Background(mask) == Pixels(mask.rows, mask.cols) \ mask.on

OnBorder(mask, px) ==
    px[1] \in {0, mask.rows - 1} \/ px[2] \in {0, mask.cols - 1}

Adjacent(p, q) == Abs(p[1] - q[1]) <= 1 /\ Abs(p[2] - q[2]) <= 1

\* The background pixels connected to the set S (background is fully
\* connected under fully_connected='low').
RECURSIVE Grow(_, _)
Grow(mask, S) ==
    LET T == S \cup { p \in Background(mask) : \E q \in S : Adjacent(p, q) }
    IN  IF T = S THEN S ELSE Grow(mask, T)

NoEnclosedHole(mask) ==
    Grow(mask, { p \in Background(mask) : OnBorder(mask, p) }) = Background(mask)

C9_PinHoleOnlyFromInnerBoundaries ==
    (conv.pin_hole # << >> /\ NoEnclosedHole(conv.pin_hole[1].input)) =>
        /\ ~conv.pin_hole[1].raised
        /\ conv.pin_hole[1].mask = conv.pin_hole[1].input

(***************************************************************************)
(* C10.  draw_line_upwards_from_point always terminates, by returning at a *)
(* background pixel or by raising on an invalid index, after at most as    *)
(* many executions of the loop body as the mask has columns.               *)
(***************************************************************************)
C10_LineLoopBounded ==
    line.pc # "idle" =>
        /\ line.iters <= line.mask.cols
        /\ line.pc = "returned" =>
              /\ ~LineTestRaises(line.mask, line.end)
              /\ ~LineTest(line.mask, line.end)
        /\ line.pc = "raised" => LineTestRaises(line.mask, line.end)

\* The loop ran more than once and ended by running off the mask.
C10_Witness == line.pc = "raised" /\ line.iters >= 2

==========================================================================
